---- MODULE Spec2Model ----
(***************************************************************************)
(* Model of the download orchestrator of spotify-dl (src/download.rs):     *)
(* Downloader::download_tracks runs one download_track pipeline per track  *)
(* through buffer_unordered(options.parallel) and try_collect.  A pipeline *)
(* is an async fn: between two .await points it runs without interleaving, *)
(* so every action below is one await point completing, followed by the    *)
(* code up to the next await point (or the return).                        *)
(*                                                                         *)
(* Strings are sequences of one-character strings, so that file names are  *)
(* computed the way get_file_name / clean_file_name compute them.          *)
(***************************************************************************)
EXTENDS Integers, Sequences, FiniteSets, TLC

\* ------------------------------------------------------------------ bounds
MaxTracks == 2      \* longest track list handed to download_tracks
MaxParallel == 2    \* largest options.parallel
MaxEvents == 1      \* Write/Retry events delivered over one batch of several tracks
MaxStreamEvents == 3 \* Write/Retry events delivered to a batch of one track
MaxArgs == 2        \* most track strings on a command line or in a cache file
MaxArtists == 4     \* most artists of a track whose names are derived
MaxLen == 3         \* longest string handed to clean_file_name on its own

\* ----------------------------------------------------------------- strings
RECURSIVE Join(_, _)
\* Vec<String>::join(sep)
Join(strs, sep) ==
    IF Len(strs) = 0 THEN << >>
    ELSE IF Len(strs) = 1 THEN strs[1]
    ELSE strs[1] \o sep \o Join(Tail(strs), sep)

\* iter().take(n)
Take(s, n) == SubSeq(s, 1, IF Len(s) < n THEN Len(s) ELSE n)

invalid_chars == {"<", ">", ":", "'", "\"", "/", "\\", "|", "?", "*", "."}
\* the characters of the model's alphabet that char::is_control accepts
ControlChars == {"\n", "\t"}
\* the characters of the model's alphabet that are not ASCII
NonAsciiChars == {"é"}

\* a test that lets the dot through
KeepChar_allows_dot(c, windows) ==
    /\ c \notin invalid_chars \ {"."}
    /\ (c \notin NonAsciiChars \/ ~windows)
    /\ c \notin ControlChars

\* the test of the loop body of clean_file_name for one character
KeepChar(c, windows) ==
    /\ c \notin invalid_chars
    /\ (c \notin NonAsciiChars \/ ~windows)
    /\ c \notin ControlChars

RECURSIVE clean_file_name(_, _)
clean_file_name(file_name, windows) ==
    IF Len(file_name) = 0 THEN << >>
    ELSE (IF KeepChar(Head(file_name), windows) THEN <<Head(file_name)>> ELSE << >>)
            \o clean_file_name(Tail(file_name), windows)

\* a get_file_name that abbreviates from three artists on
get_file_name_over_two(metadata, windows) ==
    IF Len(metadata.artists) > 2
    THEN clean_file_name(
            Join(Take(metadata.artists, 3), <<",", " ">>)
                \o <<",", " ", "a", "n", "d", " ", "o", "t", "h", "e", "r", "s", " ", "-", " ">>
                \o metadata.track_name, windows)
    ELSE clean_file_name(
            Join(metadata.artists, <<",", " ">>) \o <<" ", "-", " ">> \o metadata.track_name,
            windows)

get_file_name(metadata, windows) ==
    IF Len(metadata.artists) > 3
    THEN clean_file_name(
            Join(Take(metadata.artists, 3), <<",", " ">>)
                \o <<",", " ", "a", "n", "d", " ", "o", "t", "h", "e", "r", "s", " ", "-", " ">>
                \o metadata.track_name, windows)
    ELSE clean_file_name(
            Join(metadata.artists, <<",", " ">>) \o <<" ", "-", " ">> \o metadata.track_name,
            windows)

\* Option<String>: << >> is None, <<name>> is Some(name)
legacy_file_name(metadata, windows) ==
    IF Len(metadata.artists) > 3
    THEN << clean_file_name(
            Join(Take(metadata.artists, 3), <<",", " ">>)
                \o <<",", " ", ".", ".", ".", " ", "-", " ">>
                \o metadata.track_name, windows) >>
    ELSE << >>

\* Format::extension
extension(format) == IF format = "Mp3" THEN <<"m", "p", "3">> ELSE <<"f", "l", "a", "c">>

\* index of the last "." of s after its first character, 0 when there is none
LastDot(s) ==
    LET dots == {i \in 2..Len(s) : s[i] = "."}
    IN IF dots = {} THEN 0 ELSE CHOOSE i \in dots : \A j \in dots : j <= i

\* destination.join(stem) followed by PathBuf::set_extension(ext): the file
\* name inside the destination directory.  set_extension replaces what
\* follows the last dot of the file name, or appends ".ext" when it has none.
PathOf(stem, format) ==
    IF LastDot(stem) = 0 THEN stem \o <<".">> \o extension(format)
    ELSE SubSeq(stem, 1, LastDot(stem)) \o extension(format)


\* ------------------------------------------------------- the remote service
\* A track handle names a remote track; track.metadata() (when it succeeds)
\* yields the same TrackMetadata for it every time.
TrackIds == {"solo", "collab"}
\* handles of further tracks, named like "solo" but of other lengths
PacingTrackIds == TrackIds \cup {"odd", "negative"}

MetaOf(track) ==
    IF track = "collab"
    THEN [artists |-> << <<"A">>, <<"B">>, <<"C">>, <<"D">> >>,
          track_name |-> <<"y">>, duration |-> 1000]
    ELSE [artists |-> << <<"A">> >>, track_name |-> <<"x">>,
          duration |-> IF track = "solo" THEN 3000
                       ELSE IF track = "odd" THEN 7 ELSE -7]

Formats == {"Mp3", "Flac"}

\* StreamEvent, as rx.recv() under timeout() yields it: the four variants,
\* the closed channel (Ok(None)) and the elapsed timeout (Err(_))
\* The k-th Write event of a stream carries k samples that no other chunk
\* carries, and the bytes written so far.
WriteEvent(k) ==
    [type |-> "Write", bytes |-> 10 * k, total |-> 100,
     content |-> [i \in 1..k |-> 10 * k + i]]
RetryEvents == { [type |-> "Retry", bytes |-> 1, total |-> 3, content |-> << >>] }
EndEvents ==
    { [type |-> ty, bytes |-> 0, total |-> 0, content |-> << >>] :
        ty \in {"Finished", "Error", "Closed", "Timeout"} }

\* ------------------------------------------------------------------- state
VARIABLES
    tracks,     \* Vec<Track> handed to download_tracks
    options,    \* DownloadOptions (destination_utf8: destination is valid UTF-8)
    windows,    \* cfg!(windows) of the build
    result,     \* of download_tracks: "pending", "running", "Ok", "Err"
    pc,         \* per track: the await point its download_track future is at
    outcome,    \* per track: how its download_track ended
    returned,   \* per track: what download_track returned ("none", "Ok", "Err")
    fs,         \* the destination directory: file name -> file
    writers,    \* file name -> the tracks whose write_to_file touched it
    samples,    \* per track: the Vec<i32> of buffer_track
    received,   \* per track: what rx.recv() has yielded so far
    encoder_input, \* per track: << >>, or <<samples>> once handed to encode
    pb,         \* per track: its ProgressBar
    events,     \* Write/Retry events delivered so far
    provider,   \* the stream provider of this run: events, the Write/Retry
                \* events its streams deliver at most; closes, whether a
                \* channel may close with neither Finished nor Error sent
    slept,      \* per track: the milliseconds its pipeline has handed to
                \* tokio::time::sleep
    history,    \* PlaylistHistory (src/history.rs) and its journal file
    invocation, \* main (src/main.rs) up to store_last_run_cache, and the
                \* last-run cache file
    naming      \* the file-name functions applied to arbitrary input

vars == << tracks, options, windows, result, pc, outcome, returned, fs, writers,
           samples, received, encoder_input, pb, events, provider, slept,
           history, invocation, naming >>

\* the state of the downloader, and the state outside of it
downloader == << tracks, options, windows, result, pc, outcome, returned, fs,
                 writers, samples, received, encoder_input, pb, events,
                 provider, slept >>
elsewhere == << history, invocation, naming >>

Idx == 1..Len(tracks)

Stems == UNION { {get_file_name(MetaOf(k), w)} \cup
                 {legacy_file_name(MetaOf(k), w)[i] :
                    i \in 1..Len(legacy_file_name(MetaOf(k), w))} :
                 k \in TrackIds, w \in BOOLEAN }
AllPaths == { PathOf(s, f) : s \in Stems, f \in Formats }

NoFile == [state |-> "absent", by |-> 0, data |-> << >>, tagged |-> FALSE]
OldFile == [state |-> "old", by |-> 0, data |-> << >>, tagged |-> TRUE]
NoBar == [state |-> "none", message |-> "", position |-> 0, finishes |-> 0]

\* the parts of the program that a run of the downloader alone leaves out
NoHistory == [phase |-> "none"]
NoInvocation == [phase |-> "none"]
NoNaming == [phase |-> "none"]

InFlightPcs == {"metadata", "stream", "recv", "encode", "write", "tags", "store_tags", "sleep"}
InFlight(p) == { t \in DOMAIN p : p[t] \in InFlightPcs }

\* download_tracks has not been polled yet: no pipeline exists
NotStarted ==
    /\ result = "pending"
    /\ pc = [t \in Idx |-> "idle"]
    /\ outcome = [t \in Idx |-> "none"]
    /\ returned = [t \in Idx |-> "none"]
    /\ writers = [p \in AllPaths |-> {}]
    /\ samples = [t \in Idx |-> << >>]
    /\ received = [t \in Idx |-> << >>]
    /\ encoder_input = [t \in Idx |-> << >>]
    /\ pb = [t \in Idx |-> NoBar]
    /\ events = 0
    /\ slept = [t \in Idx |-> 0]

\* a run of the downloader on its own, built for a target other than Windows
OnlyDownloader ==
    /\ windows = FALSE
    /\ history = NoHistory
    /\ invocation = NoInvocation
    /\ naming = NoNaming

\* no batch is handed to the downloader
NoDownload ==
    /\ tracks = << >>
    /\ options = [parallel |-> 1, force |-> FALSE, format |-> "Mp3",
                  destination_utf8 |-> TRUE]
    /\ fs = [p \in AllPaths |-> NoFile]
    /\ provider = [events |-> 0, closes |-> FALSE]
    /\ NotStarted

TrackLists(n) == UNION { [1..k -> TrackIds] : k \in 0..n }

\* Scheduling and error containment: any track list, any width, an empty
\* destination directory that may be unusable as a string.  The streams keep
\* the provider's contract: some Write/Retry events, then Finished or Error,
\* or silence.
Init ==
    /\ tracks \in TrackLists(MaxTracks)
    /\ options \in [parallel : 1..MaxParallel, force : {FALSE}, format : {"Mp3"},
                    destination_utf8 : BOOLEAN]
    /\ fs = [p \in AllPaths |-> NoFile]
    /\ provider = [events |-> MaxEvents, closes |-> FALSE]
    /\ NotStarted
    /\ OnlyDownloader

\* Idempotency: any track list, width, force flag and format, over a
\* destination directory that may already hold one file; the streams deliver
\* their end only.
InitFiles ==
    /\ tracks \in TrackLists(MaxTracks)
    /\ options \in [parallel : 1..MaxParallel, force : BOOLEAN, format : Formats,
                    destination_utf8 : {TRUE}]
    /\ \E old \in SUBSET AllPaths :
          /\ Cardinality(old) <= 1
          /\ fs = [p \in AllPaths |-> IF p \in old THEN OldFile ELSE NoFile]
    /\ provider = [events |-> 0, closes |-> FALSE]
    /\ NotStarted
    /\ OnlyDownloader

\* Stream buffering: a batch of one track whose stream delivers up to
\* MaxStreamEvents Write/Retry events and whose channel may also close early.
InitStream ==
    /\ tracks \in [1..1 -> TrackIds]
    /\ options \in [parallel : 1..MaxParallel, force : BOOLEAN, format : {"Mp3"},
                    destination_utf8 : {TRUE}]
    /\ fs = [p \in AllPaths |-> NoFile]
    /\ provider = [events |-> MaxStreamEvents, closes |-> TRUE]
    /\ NotStarted
    /\ OnlyDownloader

\* Pacing: any list of tracks of any length in time, any width, with or
\* without force, every stream delivering its end only.
InitPacing ==
    /\ tracks \in UNION { [1..k -> PacingTrackIds] : k \in 0..MaxTracks }
    /\ options \in [parallel : 1..MaxParallel, force : BOOLEAN, format : {"Mp3"},
                    destination_utf8 : {TRUE}]
    /\ fs = [p \in AllPaths |-> NoFile]
    /\ provider = [events |-> 0, closes |-> FALSE]
    /\ NotStarted
    /\ OnlyDownloader

\* Progress: the batch of the first k tracks of an album that alternates
\* the two tracks, any width, an empty destination directory that may be
\* unusable as a string; the streams keep the provider's contract.
InitLive ==
    /\ tracks \in { [i \in 1..k |-> IF i % 2 = 1 THEN "solo" ELSE "collab"] :
                        k \in 0..MaxTracks }
    /\ options \in [parallel : 1..MaxParallel, force : {FALSE}, format : {"Mp3"},
                    destination_utf8 : BOOLEAN]
    /\ fs = [p \in AllPaths |-> NoFile]
    /\ provider = [events |-> MaxEvents, closes |-> FALSE]
    /\ NotStarted
    /\ OnlyDownloader

\* ------------------------------------------------------------ orchestrator
\* a queue that admits one future fewer than max
CanPull_one_fewer(in_progress, max) == in_progress < max - 1

\* a queue that admits one future more than max
CanPull_one_more(in_progress, max) == in_progress <= max

\* BufferUnordered::poll_next pulls the next future from the stream while
\* in_progress_queue.len() < max
CanPull(in_progress, max) == in_progress < max

\* a stream that yields its tracks from the back
Lowest_takes_last(S) == CHOOSE t \in S : \A u \in S : t >= u

\* stream::iter(tracks) yields the tracks in the order of the Vec
Lowest(S) == CHOOSE t \in S : \A u \in S : t <= u

RECURSIVE Fill(_, _)
\* the pulled futures are polled in the same poll: each runs to its first await
Fill(p, max) ==
    LET idle == { t \in DOMAIN p : p[t] = "idle" }
    IN IF idle # {} /\ CanPull(Cardinality(InFlight(p)), max)
       THEN Fill([p EXCEPT ![Lowest(idle)] = "metadata"], max)
       ELSE p

\* try_collect over buffer_unordered, once a future has completed with ret:
\* Err ends the collection at once and drops the stream with the futures in
\* flight; Ok is collected and the queue is refilled.
Collect(p, ret) ==
    IF ret = "Err"
    THEN [t \in DOMAIN p |-> IF p[t] \in InFlightPcs THEN "dropped" ELSE p[t]]
    ELSE Fill(p, options.parallel)

Collected(p, ret) ==
    IF ret = "Err" THEN "Err"
    ELSE IF \A t \in DOMAIN p : p[t] = "returned" THEN "Ok"
    ELSE "running"

\* download_track of track t returns ret: the future completes inside the
\* poll of download_tracks
Return(t, how, ret) ==
    /\ outcome' = [outcome EXCEPT ![t] = how]
    /\ returned' = [returned EXCEPT ![t] = ret]
    /\ pc' = Collect([pc EXCEPT ![t] = "returned"], ret)
    /\ result' = Collected(pc', ret)

DownloadTracks ==
    /\ result = "pending"
    /\ pc' = Fill(pc, options.parallel)
    /\ result' = IF Len(tracks) = 0 THEN "Ok" ELSE "running"
    /\ UNCHANGED << tracks, options, windows, outcome, returned, fs, writers,
                    samples, received, encoder_input, pb, events, provider, slept, elsewhere >>


\* ------------------------------------------------------------ the pipeline
Running(t, at) == result = "running" /\ t \in Idx /\ pc[t] = at

Metadata(t) == MetaOf(tracks[t])
FileStem(t) == get_file_name(Metadata(t), windows)
TargetPath(t) == PathOf(FileStem(t), options.format)
Exists(files, path) == files[path].state # "absent"

\* a skip check that looks at the current path only
SkipCheck_no_legacy(metadata, opts, files, win) ==
    IF opts.force THEN "proceed"
    ELSE IF files[PathOf(get_file_name(metadata, win), opts.format)].state # "absent"
         THEN "target"
    ELSE "proceed"

\* a skip check that runs whatever the force flag
SkipCheck_ignores_force(metadata, opts, files, win) ==
    LET legacy == legacy_file_name(metadata, win)
    IN IF files[PathOf(get_file_name(metadata, win), opts.format)].state # "absent"
       THEN "target"
       ELSE IF Len(legacy) > 0 /\ files[PathOf(legacy[1], opts.format)].state # "absent"
            THEN "legacy"
       ELSE "proceed"

\* the skip check of download_track: "target" or "legacy" when the track is
\* skipped because that file exists, "proceed" otherwise
SkipCheck(metadata, opts, files, win) ==
    LET target == PathOf(get_file_name(metadata, win), opts.format)
        legacy == legacy_file_name(metadata, win)
    IN IF opts.force THEN "proceed"
       ELSE IF Exists(files, target) THEN "target"
       ELSE IF Len(legacy) > 0 /\ Exists(files, PathOf(legacy[1], opts.format))
            THEN "legacy"
       ELSE "proceed"

\* target_path.to_str(): None when the path is not valid UTF-8.  The file
\* stem is a String, so only the destination can make it so.
PathToStr(opts) == IF opts.destination_utf8 THEN "Some" ELSE "None"

\* add_progress_bar
NewBar == [state |-> "active", message |-> "label", position |-> 0, finishes |-> 0]
\* ProgressBar::finish_with_message
finish_with_message(bar, msg) ==
    [bar EXCEPT !.state = "finished", !.message = msg, !.finishes = @ + 1]
\* ProgressBar::set_message
set_message(bar, msg) == [bar EXCEPT !.message = msg]
\* fail_with_error
fail_with_error(bar) == finish_with_message(bar, "Failed")

\* track.metadata(&self.session).await completes; on Ok the code runs on
\* to stream.stream(track).await
MetadataDone(t) ==
    /\ Running(t, "metadata")
    /\ \E ok \in BOOLEAN :
        IF ~ok THEN
            /\ Return(t, "metadata_error", "Ok")
            /\ UNCHANGED pb
        ELSE IF SkipCheck(Metadata(t), options, fs, windows) # "proceed" THEN
            /\ Return(t, "exists", "Ok")
            /\ UNCHANGED pb
        ELSE IF PathToStr(options) = "None" THEN
            /\ Return(t, "path_error", "Err")
            /\ UNCHANGED pb
        ELSE
            /\ pb' = [pb EXCEPT ![t] = NewBar]
            /\ pc' = [pc EXCEPT ![t] = "stream"]
            /\ UNCHANGED << result, outcome, returned >>
    /\ UNCHANGED << tracks, options, windows, fs, writers, samples, received,
                    encoder_input, events, provider, slept, elsewhere >>

\* stream.stream(track).await completes
StreamOpened(t) ==
    /\ Running(t, "stream")
    /\ \E ok \in BOOLEAN :
        IF ok THEN
            /\ pc' = [pc EXCEPT ![t] = "recv"]
            /\ UNCHANGED << result, outcome, returned, pb >>
        ELSE
            /\ pb' = [pb EXCEPT ![t] = fail_with_error(@)]
            /\ Return(t, "stream_open_error", "Ok")
    /\ UNCHANGED << tracks, options, windows, fs, writers, samples, received,
                    encoder_input, events, provider, slept, elsewhere >>

\* a buffer_track whose Write arm keeps the last chunk only
buffer_track_keeps_last_chunk(buf, bar, ev) ==
    IF ev.type = "Write" THEN
        [ctl |-> "loop", samples |-> ev.content, pb |-> [bar EXCEPT !.position = ev.bytes]]
    ELSE IF ev.type = "Retry" THEN
        [ctl |-> "loop", samples |-> buf, pb |-> set_message(bar, "Retrying")]
    ELSE IF ev.type \in {"Finished", "Closed"} THEN [ctl |-> "Some", samples |-> buf, pb |-> bar]
    ELSE IF ev.type = "Error" THEN [ctl |-> "Err", samples |-> buf, pb |-> bar]
    ELSE [ctl |-> "None", samples |-> buf, pb |-> bar]

\* a buffer_track whose Retry arm starts the buffer afresh
buffer_track_retry_restarts(buf, bar, ev) ==
    IF ev.type = "Write" THEN
        [ctl |-> "loop", samples |-> buf \o ev.content,
         pb |-> [bar EXCEPT !.position = ev.bytes]]
    ELSE IF ev.type = "Retry" THEN
        [ctl |-> "loop", samples |-> << >>,
         pb |-> [set_message(bar, "Retrying") EXCEPT !.position = 0]]
    ELSE IF ev.type = "Finished" THEN [ctl |-> "Some", samples |-> buf, pb |-> bar]
    ELSE IF ev.type = "Error" THEN [ctl |-> "Err", samples |-> buf, pb |-> bar]
    ELSE IF ev.type = "Closed" THEN [ctl |-> "Some", samples |-> buf, pb |-> bar]
    ELSE [ctl |-> "None", samples |-> buf, pb |-> bar]

\* a buffer_track that takes the closed channel for a silent one
buffer_track_closed_is_timeout(buf, bar, ev) ==
    IF ev.type = "Write" THEN
        [ctl |-> "loop", samples |-> buf \o ev.content,
         pb |-> [bar EXCEPT !.position = ev.bytes]]
    ELSE IF ev.type = "Retry" THEN
        [ctl |-> "loop", samples |-> buf, pb |-> set_message(bar, "Retrying")]
    ELSE IF ev.type = "Finished" THEN [ctl |-> "Some", samples |-> buf, pb |-> bar]
    ELSE IF ev.type = "Error" THEN [ctl |-> "Err", samples |-> buf, pb |-> bar]
    ELSE [ctl |-> "None", samples |-> buf, pb |-> bar]

\* a buffer_track whose Error arm breaks out of the loop like Finished
buffer_track_error_breaks(buf, bar, ev) ==
    IF ev.type = "Write" THEN
        [ctl |-> "loop", samples |-> buf \o ev.content,
         pb |-> [bar EXCEPT !.position = ev.bytes]]
    ELSE IF ev.type = "Retry" THEN
        [ctl |-> "loop", samples |-> buf, pb |-> set_message(bar, "Retrying")]
    ELSE IF ev.type \in {"Finished", "Closed", "Error"} THEN
        [ctl |-> "Some", samples |-> buf, pb |-> bar]
    ELSE [ctl |-> "None", samples |-> buf, pb |-> bar]

\* One turn of the loop of buffer_track on what timeout(rx.recv()) yielded:
\* the buffer, the bar, and how the loop goes on ("loop"), or what
\* buffer_track returns ("Some", "None", "Err").
buffer_track(buf, bar, ev) ==
    IF ev.type = "Write" THEN
        [ctl |-> "loop", samples |-> buf \o ev.content,
         pb |-> [bar EXCEPT !.position = ev.bytes]]
    ELSE IF ev.type = "Retry" THEN
        [ctl |-> "loop", samples |-> buf, pb |-> set_message(bar, "Retrying")]
    ELSE IF ev.type = "Finished" THEN [ctl |-> "Some", samples |-> buf, pb |-> bar]
    ELSE IF ev.type = "Error" THEN [ctl |-> "Err", samples |-> buf, pb |-> bar]
    ELSE IF ev.type = "Closed" THEN [ctl |-> "Some", samples |-> buf, pb |-> bar]
    ELSE [ctl |-> "None", samples |-> buf, pb |-> bar]

\* a match that propagates the stream error with `?`
OnBuffered_error_propagates(ctl) ==
    IF ctl = "Some" THEN [go |-> "encode", how |-> "none", ret |-> "none", msg |-> "Encoding"]
    ELSE IF ctl = "None" THEN [go |-> "return", how |-> "timeout", ret |-> "Ok", msg |-> "Skipped"]
    ELSE [go |-> "return", how |-> "stream_error", ret |-> "Err", msg |-> "Failed"]

\* a match that turns the timeout into an error of the pipeline
OnBuffered_timeout_is_error(ctl) ==
    IF ctl = "Some" THEN [go |-> "encode", how |-> "none", ret |-> "none", msg |-> "Encoding"]
    ELSE IF ctl = "None" THEN [go |-> "return", how |-> "timeout", ret |-> "Err", msg |-> "Failed"]
    ELSE [go |-> "return", how |-> "stream_error", ret |-> "Ok", msg |-> "Failed"]

\* the match of download_track on the result of buffer_track: what the
\* pipeline does next
OnBuffered(ctl) ==
    IF ctl = "Some" THEN [go |-> "encode", how |-> "none", ret |-> "none", msg |-> "Encoding"]
    ELSE IF ctl = "None" THEN [go |-> "return", how |-> "timeout", ret |-> "Ok", msg |-> "Skipped"]
    ELSE [go |-> "return", how |-> "stream_error", ret |-> "Ok", msg |-> "Failed"]

\* the number of Write events among evs
Writes(evs) == Cardinality({ i \in 1..Len(evs) : evs[i].type = "Write" })

\* timeout(timeout_duration, rx.recv()).await completes
Recv(t) ==
    /\ Running(t, "recv")
    /\ \E ev \in {WriteEvent(Writes(received[t]) + 1)} \cup RetryEvents \cup EndEvents :
        LET r == buffer_track(samples[t], pb[t], ev)
            next == OnBuffered(r.ctl)
        IN
        /\ ev.type \in {"Write", "Retry"} => events < provider.events
        /\ ev.type = "Closed" => provider.closes
        /\ events' = IF ev.type \in {"Write", "Retry"} THEN events + 1 ELSE events
        /\ received' = [received EXCEPT ![t] = Append(@, ev)]
        /\ samples' = [samples EXCEPT ![t] = r.samples]
        /\ IF r.ctl = "loop" THEN
                /\ pb' = [pb EXCEPT ![t] = r.pb]
                /\ UNCHANGED << result, pc, outcome, returned, encoder_input >>
           ELSE IF next.go = "encode" THEN
                /\ pb' = [pb EXCEPT ![t] = set_message(r.pb, next.msg)]
                /\ encoder_input' = [encoder_input EXCEPT ![t] = << r.samples >>]
                /\ pc' = [pc EXCEPT ![t] = "encode"]
                /\ UNCHANGED << result, outcome, returned >>
           ELSE
                /\ pb' = [pb EXCEPT ![t] = finish_with_message(r.pb, next.msg)]
                /\ Return(t, next.how, next.ret)
                /\ UNCHANGED encoder_input
    /\ UNCHANGED << tracks, options, windows, fs, writers, provider, slept, elsewhere >>

\* encoder.encode(samples).await completes
EncodeDone(t) ==
    /\ Running(t, "encode")
    /\ \E ok \in BOOLEAN :
        IF ok THEN
            /\ pb' = [pb EXCEPT ![t] = set_message(@, "Writing")]
            /\ pc' = [pc EXCEPT ![t] = "write"]
            /\ UNCHANGED << result, outcome, returned >>
        ELSE
            /\ Return(t, "encode_error", "Err")
            /\ UNCHANGED pb
    /\ UNCHANGED << tracks, options, windows, fs, writers, samples, received,
                    encoder_input, events, provider, slept, elsewhere >>

\* stream.write_to_file(&path).await completes: the file holds the encoded
\* samples, or the write failed and left a partial file or none
WriteDone(t) ==
    /\ Running(t, "write")
    /\ \E ok \in BOOLEAN, partial \in BOOLEAN :
        IF ok THEN
            /\ ~partial
            /\ fs' = [fs EXCEPT ![TargetPath(t)] =
                        [state |-> "written", by |-> t, data |-> encoder_input[t][1],
                         tagged |-> FALSE]]
            /\ writers' = [writers EXCEPT ![TargetPath(t)] = @ \cup {t}]
            /\ pc' = [pc EXCEPT ![t] = "tags"]
            /\ UNCHANGED << result, outcome, returned >>
        ELSE
            /\ IF partial
               THEN /\ fs' = [fs EXCEPT ![TargetPath(t)] =
                        [state |-> "partial", by |-> t, data |-> << >>, tagged |-> FALSE]]
                    /\ writers' = [writers EXCEPT ![TargetPath(t)] = @ \cup {t}]
               ELSE UNCHANGED << fs, writers >>
            /\ Return(t, "write_error", "Err")
    /\ UNCHANGED << tracks, options, windows, samples, received, encoder_input, pb, events, provider, slept, elsewhere >>

\* metadata.tags().await completes
TagsDone(t) ==
    /\ Running(t, "tags")
    /\ \E ok \in BOOLEAN :
        IF ok THEN
            /\ pc' = [pc EXCEPT ![t] = "store_tags"]
            /\ UNCHANGED << result, outcome, returned >>
        ELSE Return(t, "tags_error", "Err")
    /\ UNCHANGED << tracks, options, windows, fs, writers, samples, received,
                    encoder_input, pb, events, provider, slept, elsewhere >>

\* a delay that lets a negative duration through
delay_before_next_download_unclamped(metadata) == metadata.duration \div 5

\* (metadata.duration.max(0) as u64) / 5, in milliseconds
delay_before_next_download(metadata) ==
    (IF metadata.duration > 0 THEN metadata.duration ELSE 0) \div 5

\* encoder::tags::store_tags(path, &tags, format).await completes; on Ok the
\* code runs on to the pacing sleep (parallel == 1) or to the return
StoreTagsDone(t) ==
    /\ Running(t, "store_tags")
    /\ \E ok \in BOOLEAN :
        IF ~ok THEN
            /\ Return(t, "store_tags_error", "Err")
            /\ UNCHANGED << fs, pb, slept >>
        ELSE
            /\ fs' = [fs EXCEPT ![TargetPath(t)].tagged = TRUE]
            /\ IF options.parallel = 1 THEN
                    /\ pb' = [pb EXCEPT ![t] = set_message(@, "Delaying")]
                    /\ slept' = [slept EXCEPT
                            ![t] = @ + delay_before_next_download(Metadata(t))]
                    /\ pc' = [pc EXCEPT ![t] = "sleep"]
                    /\ UNCHANGED << result, outcome, returned >>
               ELSE
                    /\ pb' = [pb EXCEPT ![t] = finish_with_message(@, "Downloaded")]
                    /\ Return(t, "downloaded", "Ok")
                    /\ UNCHANGED slept
    /\ UNCHANGED << tracks, options, windows, writers, samples, received,
                    encoder_input, events, provider, elsewhere >>

\* tokio::time::sleep(delay_before_next_download).await completes
SleepDone(t) ==
    /\ Running(t, "sleep")
    /\ pb' = [pb EXCEPT ![t] = finish_with_message(@, "Completed")]
    /\ Return(t, "completed", "Ok")
    /\ UNCHANGED << tracks, options, windows, fs, writers, samples, received,
                    encoder_input, events, provider, slept, elsewhere >>

Next ==
    \/ DownloadTracks
    \/ \E t \in Idx : MetadataDone(t)
    \/ \E t \in Idx : StreamOpened(t)
    \/ \E t \in Idx : Recv(t)
    \/ \E t \in Idx : EncodeDone(t)
    \/ \E t \in Idx : WriteDone(t)
    \/ \E t \in Idx : TagsDone(t)
    \/ \E t \in Idx : StoreTagsDone(t)
    \/ \E t \in Idx : SleepDone(t)

Spec == Init /\ [][Next]_vars
SpecFiles == InitFiles /\ [][Next]_vars
SpecStream == InitStream /\ [][Next]_vars
SpecPacing == InitPacing /\ [][Next]_vars

\* Progress: the runtime polls download_tracks as long as an await of one of
\* its pipelines can complete, and every await does complete: the
\* collaborators return, and rx.recv() is waited on under the timeout.
SpecLive == InitLive /\ [][Next]_vars /\ WF_vars(Next)


\* ------------------------------------------------------ src/history.rs
\* The SpotifyUri values handed to PlaylistHistory; to_uri() fails for the
\* ones that have no URI form.
PlaylistUris == {"playlist1", "playlist2", "unnamed"}
TrackUris == {"track1", "track2"}

\* Option<String>: << >> is None, <<s>> is Some(s)
to_uri_string(uri) == IF uri = "unnamed" THEN << >> ELSE << uri >>

\* StoredHistory::default(): no playlist
EmptyHistory == [q \in {} |-> {}]

\* serde_json::to_string_pretty(&self.data): the object between its braces
to_string_pretty(data) == << "{", data, "}" >>

\* serde_json::from_str(&contents), as Option<StoredHistory>
from_str(contents) ==
    IF Len(contents) = 3 /\ contents[1] = "{" /\ contents[3] = "}"
    THEN << contents[2] >>
    ELSE << >>

NoJournal == [exists |-> FALSE, contents |-> << >>]

\* fs::read_to_string(&path).ok().and_then(from_str(..).ok()).unwrap_or_default()
load(file) ==
    IF file.exists /\ Len(from_str(file.contents)) = 1
    THEN from_str(file.contents)[1]
    ELSE EmptyHistory

\* the match on self.data.playlists.entry(playlist_id)
insert(data, playlist_id, track_id) ==
    IF playlist_id \in DOMAIN data
    THEN [data EXCEPT ![playlist_id] = @ \cup {track_id}]
    ELSE [q \in DOMAIN data \cup {playlist_id} |->
            IF q = playlist_id THEN {track_id} ELSE data[q]]

has_downloaded(data, playlist, track) ==
    /\ Len(to_uri_string(playlist)) = 1
    /\ Len(to_uri_string(track)) = 1
    /\ to_uri_string(playlist)[1] \in DOMAIN data
    /\ to_uri_string(track)[1] \in data[to_uri_string(playlist)[1]]

\* persist(): create_dir_all or the opening of the file fails ("refused": the
\* file is as it was), or fs::write truncates the file and fails while
\* writing ("cut" after `written` of the serialized parts), or all is written
persist(file, data, io, written) ==
    IF io = "refused" THEN file
    ELSE IF io = "cut" THEN
        [exists |-> TRUE, contents |-> SubSeq(to_string_pretty(data), 1, written)]
    ELSE [exists |-> TRUE, contents |-> to_string_pretty(data)]

\* PlaylistHistory of a process that starts with no journal
InitHistory ==
    /\ history = [data |-> load(NoJournal), file |-> NoJournal, recorded |-> {}]
    /\ invocation = NoInvocation
    /\ naming = NoNaming
    /\ windows = FALSE
    /\ NoDownload

\* the process ends and a new one calls PlaylistHistory::load(path)
Load ==
    /\ history' = [history EXCEPT !.data = load(history.file)]
    /\ UNCHANGED << downloader, invocation, naming >>

\* record_download(playlist, track); `recorded` keeps the calls that
\* inserted an entry and returned Ok
RecordDownload ==
    /\ \E playlist \in PlaylistUris, track \in TrackUris,
          io \in {"written", "refused", "cut"}, written \in 0..2 :
        IF Len(to_uri_string(playlist)) = 1 /\ Len(to_uri_string(track)) = 1
        THEN LET data == insert(history.data, to_uri_string(playlist)[1],
                                to_uri_string(track)[1])
             IN history' =
                    [data |-> data,
                     file |-> persist(history.file, data, io, written),
                     recorded |-> IF io = "written"
                                  THEN history.recorded \cup {<< playlist, track >>}
                                  ELSE history.recorded]
        ELSE /\ io = "written" /\ written = 0
             /\ UNCHANGED history
    /\ UNCHANGED << downloader, invocation, naming >>

NextHistory ==
    \/ Load
    \/ RecordDownload

SpecHistory == InitHistory /\ [][NextHistory]_vars


\* --------------------------------------------------------- src/main.rs
\* main from line 68 to line 83: the last-run cache is reset, used, and
\* stored again, with the prompt in between.
Whitespace == {" ", "\n"}

RECURSIVE trim_start(_)
trim_start(s) ==
    IF Len(s) > 0 /\ Head(s) \in Whitespace THEN trim_start(Tail(s)) ELSE s

RECURSIVE trim_end(_)
trim_end(s) ==
    IF Len(s) > 0 /\ s[Len(s)] \in Whitespace
    THEN trim_end(SubSeq(s, 1, Len(s) - 1)) ELSE s

\* str::trim
trim(s) == trim_end(trim_start(s))

RECURSIVE Split(_, _)
\* the pieces of s between the separators
Split(s, sep) ==
    LET at == { i \in 1..Len(s) : s[i] = sep }
    IN IF at = {} THEN << s >>
       ELSE LET i == CHOOSE j \in at : \A k \in at : j <= k
            IN << SubSeq(s, 1, i - 1) >> \o Split(SubSeq(s, i + 1, Len(s)), sep)

\* the characters of track strings
UrlChars == {"a", "b", "c"}
TrackStrings == { << c >> : c \in {"a", "b"} }
TrackArgs == UNION { [1..k -> TrackStrings] : k \in 0..MaxArgs }

\* serde_json::to_string_pretty(&LastRunCache { url }): the list between the
\* braces of the object
cache_to_string_pretty(url) == << "{" >> \o Join(url, << "," >>) \o << "}" >>

\* serde_json::from_str::<LastRunCache>(&data), as an Option
cache_from_str(data) ==
    LET text == trim(data)
        list == SubSeq(text, 2, Len(text) - 1)
        items == IF Len(list) = 0 THEN << >> ELSE Split(list, ",")
    IN IF /\ Len(text) >= 2
          /\ text[1] = "{"
          /\ text[Len(text)] = "}"
          /\ \A i \in 1..Len(items) :
                /\ Len(items[i]) > 0
                /\ \A j \in 1..Len(items[i]) : items[i][j] \in UrlChars
       THEN << [url |-> items] >>
       ELSE << >>

NoCacheFile == [exists |-> FALSE, utf8 |-> TRUE, contents |-> << >>]
\* what .last_run_cache.dl may hold when main starts
CacheFiles ==
    {NoCacheFile}
    \cup { [exists |-> TRUE, utf8 |-> TRUE, contents |-> c] :
            c \in {<< >>, << "\n" >>, << "#" >>, << "{", "a" >>}
                  \cup { cache_to_string_pretty(url) : url \in TrackArgs } }
    \cup { [exists |-> TRUE, utf8 |-> FALSE, contents |-> << "#" >>] }
\* what read_line may read at the prompt
PromptLines ==
    { << >>, << "\n" >>, << " ", "\n" >>, << "c", "\n" >>, << " ", "c", " ", "\n" >> }


\* a cache that is read whatever the command line holds
use_last_run_cache_always(opt, file) ==
    IF ~opt.reset THEN
        IF ~file.exists THEN [ret |-> "Ok", tracks |-> opt.tracks, file |-> file]
        ELSE IF ~file.utf8 THEN [ret |-> "Err", tracks |-> opt.tracks, file |-> file]
        ELSE IF Len(trim(file.contents)) = 0
        THEN [ret |-> "Ok", tracks |-> opt.tracks, file |-> file]
        ELSE LET cache == cache_from_str(file.contents)
             IN IF Len(cache) = 1 /\ Len(cache[1].url) > 0
                THEN [ret |-> "Ok", tracks |-> opt.tracks \o cache[1].url, file |-> file]
                ELSE IF Len(cache) = 1
                THEN [ret |-> "Ok", tracks |-> opt.tracks, file |-> file]
                ELSE [ret |-> "Ok", tracks |-> opt.tracks, file |-> NoCacheFile]
    ELSE [ret |-> "Ok", tracks |-> opt.tracks, file |-> file]

\* use_last_run_cache_if_applicable: what it returns, opt.tracks and the
\* cache file after it.  read_to_string fails with NotFound on a missing
\* file and with InvalidData on a file that is not UTF-8.
use_last_run_cache_if_applicable(opt, file) ==
    IF Len(opt.tracks) = 0 /\ ~opt.reset THEN
        IF ~file.exists THEN [ret |-> "Ok", tracks |-> opt.tracks, file |-> file]
        ELSE IF ~file.utf8 THEN [ret |-> "Err", tracks |-> opt.tracks, file |-> file]
        ELSE IF Len(trim(file.contents)) = 0
        THEN [ret |-> "Ok", tracks |-> opt.tracks, file |-> file]
        ELSE LET cache == cache_from_str(file.contents)
             IN IF Len(cache) = 1 /\ Len(cache[1].url) > 0
                THEN [ret |-> "Ok", tracks |-> opt.tracks \o cache[1].url, file |-> file]
                ELSE IF Len(cache) = 1
                THEN [ret |-> "Ok", tracks |-> opt.tracks, file |-> file]
                ELSE [ret |-> "Ok", tracks |-> opt.tracks, file |-> NoCacheFile]
    ELSE [ret |-> "Ok", tracks |-> opt.tracks, file |-> file]

\* main has created the destination and is about to look at opt.reset
InitCache ==
    /\ \E supplied \in TrackArgs, reset \in BOOLEAN, file \in CacheFiles :
        invocation = [pc |-> "reset",
                      opt |-> [tracks |-> supplied, reset |-> reset],
                      file |-> file,
                      supplied |-> supplied, found |-> file, prompted |-> << >>]
    /\ history = NoHistory
    /\ naming = NoNaming
    /\ windows = FALSE
    /\ NoDownload

At(where) == invocation.pc = where

\* lines 70-79: remove_file succeeds, finds no file, or fails otherwise
ResetCache ==
    /\ At("reset")
    /\ IF ~invocation.opt.reset \/ ~invocation.file.exists
       THEN invocation' = [invocation EXCEPT !.pc = "use_cache"]
       ELSE \E removed \in BOOLEAN :
            invocation' = IF removed
                          THEN [invocation EXCEPT !.pc = "use_cache", !.file = NoCacheFile]
                          ELSE [invocation EXCEPT !.pc = "Err"]
    /\ UNCHANGED << downloader, history, naming >>

\* line 81
UseLastRunCache ==
    /\ At("use_cache")
    /\ LET r == use_last_run_cache_if_applicable(invocation.opt, invocation.file)
       IN invocation' = [invocation EXCEPT
                            !.pc = IF r.ret = "Ok" THEN "prompt" ELSE "Err",
                            !.opt.tracks = r.tracks,
                            !.file = r.file]
    /\ UNCHANGED << downloader, history, naming >>

\* line 82, prompt_track_if_necessary: an empty line ends the process
PromptTrack ==
    /\ At("prompt")
    /\ IF Len(invocation.opt.tracks) > 0
       THEN invocation' = [invocation EXCEPT !.pc = "store"]
       ELSE \E input \in PromptLines :
            invocation' =
                IF Len(trim(input)) = 0
                THEN [invocation EXCEPT !.pc = "exit(1)", !.prompted = << input >>]
                ELSE [invocation EXCEPT !.pc = "store", !.prompted = << input >>,
                                        !.opt.tracks = Append(@, trim(input))]
    /\ UNCHANGED << downloader, history, naming >>

\* line 83, store_last_run_cache: File::create fails ("refused"), or it
\* truncates the file and write_all fails ("cut"), or the cache is written;
\* main then goes on to the session and the download
StoreLastRunCache ==
    /\ At("store")
    /\ \E io \in {"written", "refused", "cut"} :
        invocation' =
            IF io = "written"
            THEN [invocation EXCEPT !.pc = "create_session",
                    !.file = [exists |-> TRUE, utf8 |-> TRUE,
                              contents |-> cache_to_string_pretty(invocation.opt.tracks)]]
            ELSE IF io = "cut"
            THEN [invocation EXCEPT !.pc = "Err",
                    !.file = [exists |-> TRUE, utf8 |-> TRUE, contents |-> << >>]]
            ELSE [invocation EXCEPT !.pc = "Err"]
    /\ UNCHANGED << downloader, history, naming >>

NextCache ==
    \/ ResetCache
    \/ UseLastRunCache
    \/ PromptTrack
    \/ StoreLastRunCache

SpecCache == InitCache /\ [][NextCache]_vars


\* ------------------------------------------------- the file-name functions
\* get_file_name, legacy_file_name, the skip check and clean_file_name on
\* input of their own: any TrackMetadata of up to MaxArtists artists, any
\* string of up to MaxLen characters, either build target.
ArtistNames == { << "A" >>, << "é", "/" >> }
TrackNames == { << >>, << "y" >>, << "a", ".", "b" >> }
AllMetadata ==
    [artists : UNION { [1..k -> ArtistNames] : k \in 0..MaxArtists },
     track_name : TrackNames, duration : {0}]
NameChars == {"x", ".", ":", "é", "\n"}
AllNames == UNION { [1..k -> NameChars] : k \in 0..MaxLen }

\* the name of the earlier scheme as it was written, dots included
DottedName(metadata) ==
    Join(Take(metadata.artists, 3), <<",", " ">>)
        \o <<",", " ", ".", ".", ".", " ", "-", " ">> \o metadata.track_name

\* the files the destination may hold when a track of this metadata is
\* checked: its current name, and the name of the earlier scheme, as
\* written and sanitized
CandidatePaths(metadata, win) ==
    { PathOf(get_file_name(metadata, win), "Mp3"),
      PathOf(DottedName(metadata), "Mp3"),
      PathOf(clean_file_name(DottedName(metadata), win), "Mp3") }

\* a destination that holds the files `present` among `paths`
DirWith(present, paths) ==
    [p \in paths |-> IF p \in present THEN OldFile ELSE NoFile]

InitNames ==
    /\ windows \in BOOLEAN
    /\ \/ \E metadata \in AllMetadata :
            naming = [pc |-> "metadata", metadata |-> metadata, file_name |-> << >>,
                      file_stem |-> << >>, legacy |-> << >>, present |-> {},
                      skip |-> "none", cleaned |-> << >>]
       \/ \E file_name \in AllNames :
            naming = [pc |-> "file_name", metadata |-> << >>, file_name |-> file_name,
                      file_stem |-> << >>, legacy |-> << >>, present |-> {},
                      skip |-> "none", cleaned |-> << >>]
    /\ history = NoHistory
    /\ invocation = NoInvocation
    /\ NoDownload

\* download_track, lines 83 and 96: the two names of the track
DeriveNames ==
    /\ naming.pc = "metadata"
    /\ naming' = [naming EXCEPT
                    !.pc = "derived",
                    !.file_stem = << get_file_name(naming.metadata, windows) >>,
                    !.legacy = legacy_file_name(naming.metadata, windows)]
    /\ UNCHANGED << downloader, history, invocation >>

\* download_track, lines 87-107, over a destination that holds at most one
\* of the candidate files
CheckSkip ==
    /\ naming.pc = "derived"
    /\ \E present \in SUBSET CandidatePaths(naming.metadata, windows) :
        /\ Cardinality(present) <= 1
        /\ naming' = [naming EXCEPT
                        !.pc = "checked",
                        !.present = present,
                        !.skip = SkipCheck(naming.metadata,
                                    [force |-> FALSE, format |-> "Mp3"],
                                    DirWith(present,
                                        CandidatePaths(naming.metadata, windows)),
                                    windows)]
    /\ UNCHANGED << downloader, history, invocation >>

\* clean_file_name applied to the string, and to its own result
Clean ==
    /\ naming.pc = "file_name"
    /\ Len(naming.cleaned) < 2
    /\ naming' = [naming EXCEPT
                    !.cleaned = Append(@,
                        clean_file_name(IF Len(naming.cleaned) = 0
                                        THEN naming.file_name
                                        ELSE naming.cleaned[Len(naming.cleaned)],
                                        windows))]
    /\ UNCHANGED << downloader, history, invocation >>

NextNames ==
    \/ DeriveNames
    \/ CheckSkip
    \/ Clean

SpecNames == InitNames /\ [][NextNames]_vars


\* ================================================================== claims
Last(s) == s[Len(s)]
IdleTracks == { t \in Idx : pc[t] = "idle" }
LegacyExists(t) ==
    LET legacy == legacy_file_name(Metadata(t), windows)
    IN Len(legacy) > 0 /\ Exists(fs, PathOf(legacy[1], options.format))
\* this step is track t's pipeline getting its metadata and running on
GotMetadata(t) ==
    /\ pc[t] = "metadata"
    /\ pc'[t] \in {"returned", "stream"}
    /\ outcome'[t] # "metadata_error"
\* this step leaves every other pipeline where it was, apart from starting
\* the next idle track in the slot that track t has left
OthersUntouched(t) ==
    /\ \A u \in Idx \ {t} : pc[u] \in InFlightPcs \cup {"returned"} => pc'[u] = pc[u]
    /\ \A u \in Idx : pc'[u] # "dropped"
    /\ IdleTracks # {} => pc'[Lowest(IdleTracks)] = "metadata"
    /\ result' = IF \A u \in Idx : pc'[u] = "returned" THEN "Ok" ELSE "running"

\* C1: in every reachable state the number of download_track runs that have
\* started and not yet returned is at most options.parallel.
C1_BoundedConcurrency == Cardinality(InFlight(pc)) <= options.parallel

\* the queue is full while a track waits to be started
C1_Witness ==
    /\ Cardinality(InFlight(pc)) = options.parallel
    /\ IdleTracks # {}

SoftFailures == {"metadata_error", "stream_open_error", "stream_error"}

\* C2: the step in which a track fails to load its metadata, fails to open
\* its stream or receives StreamEvent::Error ends that track only: its
\* download_track returns Ok, no other pipeline is dropped or moved, the next
\* idle track is started, and download_tracks does not return Err (it returns
\* Ok when that was the last track).
C2_SoftFailureEndsOnlyThatTrack ==
    [][\A t \in Idx :
        (outcome[t] = "none" /\ outcome'[t] \in SoftFailures) =>
            /\ returned'[t] = "Ok"
            /\ pc'[t] = "returned"
            /\ OthersUntouched(t)]_vars

\* serial mode: the first track got StreamEvent::Error, the second one was
\* started after it, ran to its end, and the batch returned Ok
C2_Witness ==
    /\ Len(tracks) = 2
    /\ options.parallel = 1
    /\ outcome[1] = "stream_error"
    /\ outcome[2] = "completed"
    /\ result = "Ok"

HardFailures == {"encode_error", "write_error", "tags_error", "store_tags_error"}

\* C3: an encode, file-write or tag-write failure of one track does not
\* abort the batch: no sibling pipeline is dropped in flight, and when
\* download_tracks has returned every track has been started and has run to
\* its end.
C3_HardFailureContained ==
    (\E t \in Idx : outcome[t] \in HardFailures) =>
        /\ \A u \in Idx : pc[u] # "dropped"
        /\ result \in {"Ok", "Err"} => \A u \in Idx : pc[u] = "returned"

\* C4: download_tracks returns an error if and only if the output path of
\* some track could not be resolved to a string.
C4_ErrIffStructural ==
    (result = "Err") <=> (\E t \in Idx : outcome[t] = "path_error")

\* C5: with force = false, at most one pipeline of a batch writes a given
\* output path.
C5_OneWritePerPath ==
    ~options.force => \A p \in AllPaths : Cardinality(writers[p]) <= 1

\* C6: with force = false, a pipeline that finds a file at its derived
\* current path or at its derived legacy path when it performs the skip check
\* reports the skip (returns Ok with no progress bar), and a pipeline that
\* has skipped never receives from a stream, hands nothing to the encoder
\* and writes no file.
C6_SkipWhenFileExists ==
    [][\A t \in Idx :
        /\ (GotMetadata(t) /\ ~options.force
                /\ (Exists(fs, TargetPath(t)) \/ LegacyExists(t))) =>
              /\ outcome'[t] = "exists"
              /\ returned'[t] = "Ok"
              /\ pc'[t] = "returned"
        /\ outcome'[t] = "exists" =>
              /\ pb'[t] = NoBar
              /\ received'[t] = << >>
              /\ encoder_input'[t] = << >>
              /\ \A p \in AllPaths : t \notin writers'[p]]_vars

\* a track was skipped because of the file at its legacy path alone
C6_Witness ==
    \E t \in Idx :
        /\ outcome[t] = "exists"
        /\ ~Exists(fs, TargetPath(t))
        /\ LegacyExists(t)

\* C7: with force = true no pipeline is skipped for an existing file: a
\* pipeline that got its metadata goes on to open the stream whatever the
\* destination holds, and the write that follows a completed stream replaces
\* the file at the derived current path by the encoded samples.
C7_ForceBypassesSkip ==
    [][options.force => \A t \in Idx :
        /\ outcome'[t] # "exists"
        /\ GotMetadata(t) => pc'[t] = "stream"
        /\ (pc[t] = "write" /\ pc'[t] = "tags") =>
              fs'[TargetPath(t)] = [state |-> "written", by |-> t,
                                    data |-> encoder_input[t][1], tagged |-> FALSE]]_vars

\* with force = true the stream of a track was opened and has completed
\* although a file from before the batch is at its current path, which the
\* write in progress replaces
C7_Witness ==
    \E t \in Idx :
        /\ options.force
        /\ pc[t] = "write"
        /\ fs[TargetPath(t)] = OldFile

RECURSIVE Concat(_)
\* the sample chunks of the Write events of evs, one after the other
Concat(evs) ==
    IF Len(evs) = 0 THEN << >>
    ELSE (IF Head(evs).type = "Write" THEN Head(evs).content ELSE << >>) \o Concat(Tail(evs))

\* C8: when buffer_track has received Write/Retry events followed by
\* Finished, the buffer it returns is the concatenation of the chunks of all
\* Write events in arrival order.
C8_BufferIsConcatenation ==
    \A t \in Idx :
        (Len(received[t]) > 0 /\ Last(received[t]).type = "Finished") =>
            /\ Len(encoder_input[t]) = 1
            /\ encoder_input[t][1] = Concat(received[t])

\* two Write events and a Retry event, then Finished
C8_Witness ==
    \E t \in Idx :
        /\ Len(received[t]) = 4
        /\ Last(received[t]).type = "Finished"
        /\ Writes(received[t]) = 2
        /\ received[t][2].type = "Retry"

\* C9: the step in which the wait for the next event times out ends the
\* track as timed out: download_track returns Ok, the bar is finished with
\* "Skipped", no file changes, no other pipeline is dropped or moved and the
\* next idle track is started; a timed-out track has handed nothing to the
\* encoder and has written nothing.
C9_TimeoutSkipsTrack ==
    [][\A t \in Idx :
        /\ (pc[t] = "recv" /\ Len(received'[t]) > Len(received[t])
                /\ Last(received'[t]).type = "Timeout") =>
              /\ outcome'[t] = "timeout"
              /\ returned'[t] = "Ok"
              /\ pc'[t] = "returned"
              /\ pb'[t].state = "finished"
              /\ pb'[t].message = "Skipped"
              /\ fs' = fs
              /\ OthersUntouched(t)
        /\ outcome'[t] = "timeout" =>
              /\ encoder_input'[t] = << >>
              /\ \A p \in AllPaths : t \notin writers'[p]]_vars

\* serial mode: the first track timed out after a Write or Retry event and
\* the second track was started
C9_Witness ==
    /\ Len(tracks) = 2
    /\ options.parallel = 1
    /\ outcome[1] = "timeout"
    /\ Len(received[1]) = 2
    /\ pc[2] \in InFlightPcs

\* C10 as stated: the buffer is handed to the encoder only after a Finished
\* event or a timeout has been observed on the track's stream.
C10_ReadOnlyAfterFinishedOrTimeout ==
    \A t \in Idx :
        encoder_input[t] # << >> =>
            \E i \in 1..Len(received[t]) : received[t][i].type \in {"Finished", "Timeout"}

\* C10 amended: the buffer is handed to the encoder only after a Finished
\* event or the closing of the event channel has been observed on the
\* track's stream, and never after a timeout.
C10_ReadOnlyAfterFinishedOrClosed ==
    \A t \in Idx :
        encoder_input[t] # << >> =>
            /\ Len(received[t]) > 0
            /\ Last(received[t]).type \in {"Finished", "Closed"}
            /\ \A i \in 1..Len(received[t]) : received[t][i].type # "Timeout"

\* the encoder got the chunk of a stream whose channel closed early
C10_Witness ==
    \E t \in Idx :
        /\ encoder_input[t] = << WriteEvent(1).content >>
        /\ Last(received[t]).type = "Closed"

\* C11: with parallel = 1 the tracks are processed strictly in input order:
\* the pipeline of a track has not begun (it has fetched no metadata, opened
\* no stream) while the pipeline of an earlier track has not returned, its
\* pacing sleep included; so the tracks reach their outcomes in input order.
C11_SerialInInputOrder ==
    options.parallel = 1 =>
        \A t \in Idx : \A u \in 1..(t - 1) :
            /\ pc[t] # "idle" => pc[u] = "returned" /\ outcome[u] # "none"
            /\ outcome[t] # "none" => outcome[u] # "none"
            /\ pc[u] = "sleep" =>
                    pc[t] = "idle" /\ pb[t] = NoBar /\ received[t] = << >>

\* the second track is under way after the first one has slept and returned
C11_Witness ==
    /\ options.parallel = 1
    /\ Len(tracks) = 2
    /\ outcome[1] = "completed"
    /\ slept[1] > 0
    /\ pc[2] = "recv"

\* the pipeline of track t got past store_tags: its file is written and tagged
WrittenAndTagged(t) == pc[t] = "sleep" \/ outcome[t] \in {"completed", "downloaded"}

\* C12: the pacing delay of a track is max(duration_ms, 0) / 5 milliseconds,
\* rounded down (3000 gives 600), when parallel = 1 and the track was
\* written and tagged; it is zero for any parallel > 1 and for any track
\* that was skipped, timed out or failed.
C12_PacingDelay ==
    \A t \in Idx :
        LET d == MetaOf(tracks[t]).duration
            clamped == IF d < 0 THEN 0 ELSE d
        IN IF options.parallel = 1 /\ WrittenAndTagged(t)
           THEN /\ 5 * slept[t] <= clamped
                /\ clamped < 5 * slept[t] + 5
                /\ d = 3000 => slept[t] = 600
           ELSE slept[t] = 0

\* a track of negative length and a track of 7 ms have both been paced
C12_Witness ==
    /\ options.parallel = 1
    /\ \E t, u \in Idx :
        /\ tracks[t] = "negative" /\ outcome[t] = "completed" /\ slept[t] = 0
        /\ tracks[u] = "odd" /\ outcome[u] = "completed" /\ slept[u] = 1

TerminalMessages == {"Completed", "Downloaded", "Skipped", "Failed"}

\* C13: every track whose pipeline has ended, whatever its outcome, has a
\* progress bar that was finalized with a terminal message exactly once; no
\* bar is ever finalized twice.
C13_BarFinalizedExactlyOnce ==
    \A t \in Idx :
        /\ pb[t].finishes <= 1
        /\ pc[t] \in {"returned", "dropped"} =>
                /\ pb[t].state = "finished"
                /\ pb[t].finishes = 1
                /\ pb[t].message \in TerminalMessages

\* the event channel of track t closed with neither Finished nor Error sent
ChannelClosed(t) ==
    /\ Len(received[t]) > 0
    /\ Last(received[t]).type = "Closed"
    /\ \A i \in 1..Len(received[t]) : received[t][i].type \notin {"Finished", "Error"}

\* the pipeline of track t goes on as after Finished: it encodes the samples
\* accumulated so far, writes them and tags the file
GoesOnAsFinished(t) ==
    /\ pc[t] \in {"encode", "write", "tags", "store_tags", "sleep", "returned", "dropped"}
    /\ outcome[t] \notin {"timeout", "stream_error"}
    /\ samples[t] = Concat(received[t])
    /\ encoder_input[t] = << Concat(received[t]) >>
    /\ pb[t].message \notin {"Skipped", "Failed"}
    /\ pc[t] \in {"tags", "store_tags", "sleep"} \/ outcome[t] \in {"completed", "downloaded"}
            => /\ fs[TargetPath(t)].state = "written"
               /\ fs[TargetPath(t)].data = Concat(received[t])

\* C20: when the event channel closes with no Finished and no Error seen,
\* buffer_track returns the samples accumulated so far exactly as it does on
\* Finished, and the pipeline goes on to encode, write and tag them.
C20_CloseIsFinished ==
    [][\A t \in Idx :
        /\ ChannelClosed(t)' => GoesOnAsFinished(t)'
        /\ ChannelClosed(t)' /\ ~ChannelClosed(t) =>
                LET closed == buffer_track(samples[t], pb[t], Last(received'[t]))
                    finished == buffer_track(samples[t], pb[t],
                                    [Last(received'[t]) EXCEPT !.type = "Finished"])
                IN /\ closed = finished
                   /\ closed.ctl = "Some"
                   /\ samples'[t] = samples[t]
                   /\ encoder_input'[t] = << samples[t] >>
                   /\ pb'[t] = set_message(pb[t], "Encoding")
                   /\ pc'[t] = "encode"
                   /\ outcome'[t] = "none" /\ returned'[t] = "none"]_vars

\* a stream that sent two chunks and closed: the file holds both, tagged
C20_Witness ==
    \E t \in Idx :
        /\ ChannelClosed(t)
        /\ Writes(received[t]) = 2
        /\ outcome[t] \in {"completed", "downloaded"}
        /\ fs[TargetPath(t)].data = Concat(received[t])
        /\ fs[TargetPath(t)].tagged

\* the journal file parses and holds the entry (playlist, track)
JournalHolds(playlist, track) ==
    /\ history.file.exists
    /\ Len(from_str(history.file.contents)) = 1
    /\ has_downloaded(from_str(history.file.contents)[1], playlist, track)

\* C14: an entry recorded by record_download is never removed: after any
\* later record_download calls and restarts of the process, has_downloaded
\* is true of it and the persisted journal contains it.
C14_EntriesNeverRemoved ==
    \A e \in history.recorded :
        /\ has_downloaded(history.data, e[1], e[2])
        /\ JournalHolds(e[1], e[2])

\* the cache file holds something that is not a LastRunCache
Corrupted(file) ==
    /\ file.exists
    /\ \/ ~file.utf8
       \/ Len(trim(file.contents)) > 0 /\ Len(cache_from_str(file.contents)) = 0

\* C15: when the last-run cache file exists but does not deserialize,
\* use_last_run_cache_if_applicable raises no error: no track is added from
\* the file, the file is deleted when the cache was to be used, and the run
\* goes on to the prompt with the tracks of the command line only.
C15_CorruptedCacheDiscarded ==
    [][At("use_cache") /\ Corrupted(invocation.file) =>
            /\ invocation'.pc = "prompt"
            /\ invocation'.opt.tracks = invocation.supplied
            /\ Len(invocation.supplied) = 0 => ~invocation'.file.exists]_vars

\* the cache file holds exactly this list of track strings
CacheHolds(url) ==
    /\ invocation.file.exists
    /\ invocation.file.utf8
    /\ cache_from_str(invocation.file.contents) = << [url |-> url] >>

\* main has returned, exited, or gone past the cache
Ended == invocation.pc \in {"create_session", "exit(1)", "Err"}

\* C16 as stated: after every invocation the cache file holds exactly the
\* tracks the invocation used, whatever the command line, the cache file
\* found, the reset flag and the prompt input were.
C16_CacheRewrittenEveryInvocation ==
    Ended => CacheHolds(invocation.opt.tracks)

\* the tracks an invocation uses: the command line, else the cache found
\* (unless reset), else the line read at the prompt
Used ==
    LET found == invocation.found
        cached == IF found.exists /\ found.utf8 /\ ~invocation.opt.reset
                  THEN cache_from_str(found.contents) ELSE << >>
    IN IF Len(invocation.supplied) > 0 THEN invocation.supplied
       ELSE IF Len(cached) = 1 /\ Len(cached[1].url) > 0 THEN cached[1].url
       ELSE << trim(invocation.prompted[1]) >>

\* C16, amended: an invocation that gets past store_last_run_cache has
\* rewritten the cache file wholesale, to exactly the tracks it uses, with
\* nothing merged in from the file found; an invocation ended by an empty
\* prompt line has not rewritten it.
C16_CacheRewrittenWhenStored ==
    /\ At("create_session") =>
            /\ invocation.opt.tracks = Used
            /\ Len(Used) > 0
            /\ CacheHolds(Used)
    /\ At("exit(1)") =>
            /\ Len(invocation.opt.tracks) = 0
            /\ invocation.file \in {invocation.found, NoCacheFile}

\* a command line of one track over a cache of two others: the cache now
\* holds the one track
C16_Witness ==
    /\ At("create_session")
    /\ invocation.supplied = << << "b" >> >>
    /\ invocation.found.contents = cache_to_string_pretty(<< << "a" >>, << "a" >> >>)
    /\ invocation.file.contents = << "{", "b", "}" >>

AndOthers == <<"a", "n", "d", " ", "o", "t", "h", "e", "r", "s">>
Dots == <<".", ".", ".">>

\* legacy is current with one "and others" replaced by "..."
DiffersOnlyInDots(current, legacy) ==
    \E i \in 1..Len(current) :
        /\ i + Len(AndOthers) - 1 <= Len(current)
        /\ SubSeq(current, i, i + Len(AndOthers) - 1) = AndOthers
        /\ legacy = SubSeq(current, 1, i - 1) \o Dots
                        \o SubSeq(current, i + Len(AndOthers), Len(current))

\* C17: for every metadata of more than three artists there is exactly one
\* legacy name, which differs from the current name only in having "..."
\* where the current name has "and others", and the skip check tests both
\* names.
C17_LegacyNameHasDots ==
    naming.pc \in {"derived", "checked"} /\ Len(naming.metadata.artists) > 3 =>
        /\ Len(naming.legacy) = 1
        /\ DiffersOnlyInDots(naming.file_stem[1], naming.legacy[1])
        /\ naming.pc = "checked" =>
                naming.skip =
                    IF PathOf(naming.file_stem[1], "Mp3") \in naming.present
                    THEN "target"
                    ELSE IF PathOf(naming.legacy[1], "Mp3") \in naming.present
                    THEN "legacy"
                    ELSE "proceed"

\* C18: for every metadata of at most three artists, none included, the
\* derived name is the sanitized "artists joined by comma - title", there
\* is no legacy name, and the skip check tests the current path only.
C18_PlainNameUpToThreeArtists ==
    naming.pc \in {"derived", "checked"} /\ Len(naming.metadata.artists) <= 3 =>
        /\ naming.file_stem =
                << clean_file_name(Join(naming.metadata.artists, <<",", " ">>)
                        \o <<" ", "-", " ">> \o naming.metadata.track_name, windows) >>
        /\ naming.legacy = << >>
        /\ naming.pc = "checked" =>
                naming.skip =
                    IF PathOf(naming.file_stem[1], "Mp3") \in naming.present
                    THEN "target" ELSE "proceed"

\* a track of three artists over a destination that holds the file the
\* earlier scheme would have named: the track is not skipped
C18_Witness ==
    /\ naming.pc = "checked"
    /\ Len(naming.metadata.artists) = 3
    /\ naming.present = {PathOf(clean_file_name(DottedName(naming.metadata), windows), "Mp3")}
    /\ naming.skip = "proceed"
    /\ naming.legacy = << >>

\* the characters clean_file_name strips on this build target
StrippedChars ==
    invalid_chars \cup ControlChars \cup (IF windows THEN NonAsciiChars ELSE {})

\* C19: clean_file_name is idempotent, clean(clean(s)) = clean(s), and its
\* result contains none of the characters it strips.
C19_CleanIdempotent ==
    naming.pc = "file_name" =>
        /\ \A k \in 1..Len(naming.cleaned) :
            /\ \A i \in 1..Len(naming.cleaned[k]) :
                    naming.cleaned[k][i] \notin StrippedChars
            /\ Len(naming.cleaned[k]) <= Len(naming.file_name)
        /\ Len(naming.cleaned) = 2 => naming.cleaned[2] = naming.cleaned[1]

\* a string that loses some of its characters, not all, cleaned twice
C19_Witness ==
    /\ naming.pc = "file_name"
    /\ Len(naming.cleaned) = 2
    /\ naming.cleaned[1] # naming.file_name
    /\ naming.cleaned[1] # << >>
    /\ \E i \in 1..Len(naming.file_name) : naming.file_name[i] \in NonAsciiChars

IsNotRetry(ev) == ev.type # "Retry"
\* the events of evs that are not Retry events, in their order
WithoutRetries(evs) == SelectSeq(evs, IsNotRetry)

RECURSIVE Buffered(_, _)
\* the buffer of buffer_track once it has taken the events evs, from buf
Buffered(buf, evs) ==
    IF Len(evs) = 0 THEN buf
    ELSE Buffered(buffer_track(buf, NewBar, Head(evs)).samples, Tail(evs))

\* this step is track t receiving a Retry event
ReceivesRetry(t) ==
    /\ Len(received'[t]) = Len(received[t]) + 1
    /\ Last(received'[t]).type = "Retry"

\* C21: a Retry event changes the progress message and nothing else: the
\* buffer and the position stay as they were, the track neither fails nor
\* ends and goes on waiting for the next event; the buffer, and what
\* Finished hands to the encoder, are those of the events without the Retry
\* events.
C21_RetryChangesOnlyMessage ==
    [][\A t \in Idx :
        /\ ReceivesRetry(t) =>
                /\ samples'[t] = samples[t]
                /\ pb'[t] = [pb[t] EXCEPT !.message = "Retrying"]
                /\ pb'[t].position = pb[t].position
                /\ pb'[t].state = "active"
                /\ pc'[t] = "recv"
                /\ outcome'[t] = "none" /\ returned'[t] = "none"
                /\ result' = result
                /\ encoder_input' = encoder_input /\ fs' = fs
        /\ samples'[t] = Buffered(<< >>, WithoutRetries(received'[t]))
        /\ Len(received'[t]) > 0 /\ Last(received'[t]).type = "Finished" =>
                encoder_input'[t] = << Buffered(<< >>, WithoutRetries(received'[t])) >>]_vars

\* a chunk, a Retry event, another chunk, then Finished: the file holds the
\* two chunks
C21_Witness ==
    \E t \in Idx :
        /\ Len(received[t]) = 4
        /\ received[t][1].type = "Write"
        /\ received[t][2].type = "Retry"
        /\ received[t][3].type = "Write"
        /\ received[t][4].type = "Finished"
        /\ fs[TargetPath(t)].data = WriteEvent(1).content \o WriteEvent(2).content
        /\ outcome[t] \in {"completed", "downloaded"}

\* download_tracks has returned
Returned == result \in {"Ok", "Err"}
\* the pipeline of track t has begun
Started(t) == t \in Idx /\ pc[t] # "idle"
\* the pipeline of track t has ended with an outcome of its own
HasOutcome(t) == t \in Idx /\ pc[t] = "returned" /\ outcome[t] # "none"

\* download_tracks returns in the end
DownloadTracksReturns == <>Returned

\* C22 as stated: when the streams keep the provider's contract and the
\* collaborators return, every started pipeline reaches a terminal outcome
\* in the end and download_tracks returns in the end.
C22_EveryPipelineReachesAnOutcome ==
    /\ DownloadTracksReturns
    /\ \A t \in 1..MaxTracks : Started(t) ~> HasOutcome(t)

\* the pipeline of track t was dropped in flight with the batch
Dropped(t) == t \in Idx /\ pc[t] = "dropped"

\* this step is track t receiving a Write or a Retry event
ReceivesData(t) ==
    /\ Len(received'[t]) = Len(received[t]) + 1
    /\ Last(received'[t]).type \in {"Write", "Retry"}

\* C22, amended: under the same conditions download_tracks returns in the
\* end, and every started pipeline ends in the end, with a terminal outcome
\* or dropped in flight by a download_tracks that returns Err; a Write or
\* Retry event never ends the wait, however many came before it.
C22_EveryPipelineEndsOrIsDropped ==
    /\ DownloadTracksReturns
    /\ \A t \in 1..MaxTracks : Started(t) ~> (HasOutcome(t) \/ Dropped(t))
    /\ [](\A t \in Idx : pc[t] = "dropped" => result = "Err")
    /\ [][\A t \in Idx : ReceivesData(t) =>
                pc'[t] = "recv" /\ outcome'[t] = "none"]_vars

\* a batch of two that has returned Err: one pipeline failed after its
\* stream had delivered an event, the other was dropped in flight
C22_Witness ==
    /\ result = "Err"
    /\ \E t, u \in Idx :
        /\ pc[t] = "dropped" /\ outcome[t] = "none"
        /\ HasOutcome(u) /\ returned[u] = "Err"
        /\ Len(received[u]) = 2
====
